---------------------------- MODULE Spec2Model ----------------------------
(***************************************************************************)
(* A model of stitch_pdfs.py: process_folder walks a directory listing,    *)
(* selects the entries whose lower-cased name ends with ".pdf" and calls   *)
(* process_pdf on each; process_pdf rasterizes the document, allocates a   *)
(* white canvas of (max page width, sum of page heights), pastes the pages *)
(* top to bottom and saves the canvas as a one-page document.              *)
(*                                                                         *)
(* The rasterizer (pdf2image.convert_from_path) and the encoder            *)
(* (PIL.Image.save) are external: the rasterizer either raises, returns no *)
(* page, or returns a sequence of pages; the encoder either writes the     *)
(* file or raises.  Nothing in the source catches an encoder exception.    *)
(***************************************************************************)
EXTENDS Integers, Sequences, FiniteSets, TLC

\* ------------------------------------------------------------------ bounds
\* Longest directory listing explored.
MaxEntries == 2
\* Most pages the rasterizer returns for one document.
MaxPages == 3

\* ------------------------------------------------------- program constants
\* The channel value of the background colour, (255, 255, 255).
ChannelMax == 255
\* The default resolution of process_pdf, process_folder and --dpi.
DefaultDpi == 200

\* ------------------------------------------------------------ file names
\* File names are sequences of one-character strings.
Ext == <<".", "p", "d", "f">>

Names ==
    { <<"a", ".", "p", "d", "f">>,
      <<"B", ".", "P", "d", "F">>,
      <<"p", "d", "f", ".", "t", "x", "t">> }

input_folder == <<"i", "n">>
output_folder == <<"o", "u", "t">>

\* str.lower() on one character of the alphabet used by Names.
LowerChar(c) ==
    CASE c = "A" -> "a"
      [] c = "B" -> "b"
      [] c = "C" -> "c"
      [] c = "D" -> "d"
      [] c = "F" -> "f"
      [] c = "P" -> "p"
      [] c = "T" -> "t"
      [] c = "X" -> "x"
      [] OTHER -> c

\* str.lower()
Lower(s) == [j \in 1..Len(s) |-> LowerChar(s[j])]

\* str.endswith(suffix)
EndsWith(s, suffix) ==
    /\ Len(s) >= Len(suffix)
    /\ SubSeq(s, Len(s) - Len(suffix) + 1, Len(s)) = suffix

\* A mutant of IsSelected: the extension compared case-sensitively.
IsSelectedCaseSensitive(filename) == EndsWith(filename, Ext)

\* The filter of process_folder: filename.lower().endswith(".pdf")
IsSelected(filename) == EndsWith(Lower(filename), Ext)

\* os.path.join(folder, filename) for a relative filename.
Join(folder, filename) == folder \o <<"/">> \o filename

\* -------------------------------------------------------------- images
White == <<ChannelMax, ChannelMax, ChannelMax>>

\* The colours the rasterized pages are painted with (white among them).
Palette == << <<0, 0, 0>>, <<ChannelMax, 0, 0>>, White >>

\* The (width, height) pairs of the pages the rasterizer returns.
PageSizes == { <<1, 1>>, <<2, 1>>, <<1, 2>> }

\* The pixel positions of a width x height raster.
Pixels(width, height) == (0..(width - 1)) \X (0..(height - 1))

\* The colour of pixel (x, y) of the i-th page of a document.
Ink(i, x, y) == Palette[((i + x + 2 * y) % Len(Palette)) + 1]

\* The i-th page of a rasterized document, of size s.
RasterPage(i, s) ==
    [width |-> s[1], height |-> s[2],
     pix |-> [p \in Pixels(s[1], s[2]) |-> Ink(i, p[1], p[2])]]

\* What convert_from_path can return: the documents of 0..MaxPages pages.
PageLists ==
    UNION { { [i \in 1..n |-> RasterPage(i, sizes[i])] : sizes \in [1..n -> PageSizes] }
            : n \in 0..MaxPages }

\* A mutant of MaxWidth: the width of the first page.
MaxWidthFirstPage(imgs) == imgs[1].width

\* max(img.width for img in images)
RECURSIVE MaxWidth(_)
MaxWidth(imgs) ==
    IF Len(imgs) = 1 THEN imgs[1].width
    ELSE LET rest == MaxWidth(Tail(imgs))
         IN  IF imgs[1].width > rest THEN imgs[1].width ELSE rest

\* sum(img.height for img in images)
RECURSIVE TotalHeight(_)
TotalHeight(imgs) ==
    IF imgs = <<>> THEN 0 ELSE imgs[1].height + TotalHeight(Tail(imgs))

\* Image.new("RGB", (width, height), color=(255, 255, 255))
NewImage(width, height) ==
    [width |-> width, height |-> height,
     pix |-> [p \in Pixels(width, height) |-> White]]

\* A mutant of Paste: the box's vertical offset is ignored.
PasteAtTop(canvas, img, box) ==
    [canvas EXCEPT !.pix =
        [p \in DOMAIN canvas.pix |->
            IF /\ p[1] >= box[1] /\ p[1] < box[1] + img.width
               /\ p[2] >= 0 /\ p[2] < img.height
            THEN img.pix[<<p[1] - box[1], p[2]>>]
            ELSE canvas.pix[p]]]

\* stitched_image.paste(img, box): the region of img's size whose upper left
\* corner is box, clipped to the canvas, is overwritten with the pixels of img.
Paste(canvas, img, box) ==
    [canvas EXCEPT !.pix =
        [p \in DOMAIN canvas.pix |->
            IF /\ p[1] >= box[1] /\ p[1] < box[1] + img.width
               /\ p[2] >= box[2] /\ p[2] < box[2] + img.height
            THEN img.pix[<<p[1] - box[1], p[2] - box[2]>>]
            ELSE canvas.pix[p]]]

\* A mutant of NextY: the offset advances by the page's width.
NextYByWidth(y, img) == y + img.width

\* current_y += img.height
NextY(y, img) == y + img.height

\* A mutant of LoopDone: the loop is left after its first iteration.
LoopDoneAfterFirst(n, imgs) == n >= 1

\* for img in images: the loop is left once every page has been visited.
LoopDone(n, imgs) == n = Len(imgs)

\* A mutant of WriteFile: nothing is written.
WriteNothing(fs, path, doc) == fs

\* The file system after a document is written at path.
WriteFile(fs, path, doc) ==
    [p \in DOMAIN fs \cup {path} |-> IF p = path THEN doc ELSE fs[p]]

\* A mutant of FirstY: the offset the previous document ended at is kept.
FirstYStale(prev) == prev

\* current_y = 0
FirstY(prev) == 0

\* --------------------------------------------------------------- state
VARIABLES
    listing,         \* os.listdir(input_folder): a sequence of distinct names
    dpi,             \* the resolution given to process_folder
    outDirExists,    \* os.path.exists(output_folder)
    pc,              \* the statement the program is at
    idx,             \* the position of process_folder's loop in listing
    input_pdf,       \* process_pdf's arguments
    output_pdf,
    images,          \* process_pdf's locals
    max_width,
    total_height,
    stitched_image,
    current_y,
    k,               \* the number of pages the paste loop has pasted
    outputs,         \* the files written into output_folder: path -> document
    stdout,          \* the status lines printed so far
    sources,         \* history: path -> the pages its document was made from
    boxes,           \* history: the boxes the current paste loop pasted at
    hist             \* history: per listing entry, what was done for it

vars ==
    <<listing, dpi, outDirExists, pc, idx, input_pdf, output_pdf, images,
      max_width, total_height, stitched_image, current_y, k, outputs, stdout,
      sources, boxes, hist>>

\* The listings of at most MaxEntries distinct names.
Listings ==
    UNION { { l \in [1..n -> Names] : \A i, j \in 1..n : l[i] = l[j] => i = j }
            : n \in 0..MaxEntries }

\* The resolutions tried: the default and one --dpi value.
Dpis == {DefaultDpi, 72}

NoHistory ==
    [calls |-> 0, allocs |-> 0, saves |-> 0, writes |-> 0, status |-> "pending"]

Init ==
    /\ listing \in Listings
    /\ dpi \in Dpis
    /\ outDirExists \in BOOLEAN
    /\ pc = "start"
    /\ idx = 1
    /\ input_pdf = <<>>
    /\ output_pdf = <<>>
    /\ images = <<>>
    /\ max_width = 0
    /\ total_height = 0
    /\ stitched_image = NewImage(0, 0)
    /\ current_y = 0
    /\ k = 0
    /\ outputs = <<>>
    /\ stdout = <<>>
    /\ sources = <<>>
    /\ boxes = <<>>
    /\ hist = [i \in 1..Len(listing) |-> NoHistory]

locals == <<images, max_width, total_height, stitched_image, current_y, k, boxes>>
args == <<input_pdf, output_pdf>>
inputs == <<listing, dpi>>
files == <<outputs, sources>>

\* A mutant of Return: process_folder's loop is left after the first call.
ReturnLeavesLoop ==
    /\ pc' = "done"
    /\ idx' = idx

\* process_pdf returns to process_folder's loop, which moves to the next entry.
Return ==
    /\ pc' = "loop"
    /\ idx' = idx + 1

\* if not os.path.exists(output_folder): os.makedirs(output_folder)
MakeDirs ==
    /\ pc = "start"
    /\ outDirExists' = TRUE
    /\ pc' = "loop"
    /\ UNCHANGED <<inputs, idx, args, locals, files, stdout, hist>>

\* An entry the filter rejects: the loop moves on.
SkipEntry ==
    /\ pc = "loop"
    /\ idx <= Len(listing)
    /\ ~IsSelected(listing[idx])
    /\ idx' = idx + 1
    /\ UNCHANGED <<inputs, outDirExists, pc, args, locals, files, stdout, hist>>

\* An entry the filter selects: process_pdf is called with the joined paths.
CallProcessPdf ==
    /\ pc = "loop"
    /\ idx <= Len(listing)
    /\ IsSelected(listing[idx])
    /\ input_pdf' = Join(input_folder, listing[idx])
    /\ output_pdf' = Join(output_folder, listing[idx])
    /\ hist' = [hist EXCEPT ![idx].calls = @ + 1]
    /\ pc' = "convert"
    /\ UNCHANGED <<inputs, outDirExists, idx, locals, files, stdout>>

\* The listing is exhausted: process_folder returns.
EndOfListing ==
    /\ pc = "loop"
    /\ idx > Len(listing)
    /\ pc' = "done"
    /\ UNCHANGED <<inputs, outDirExists, idx, args, locals, files, stdout, hist>>

\* convert_from_path raises: the error is printed and process_pdf returns.
ConvertRaises ==
    /\ pc = "convert"
    /\ stdout' = Append(stdout, [kind |-> "error", file |-> input_pdf])
    /\ hist' = [hist EXCEPT ![idx].status = "skipped"]
    /\ Return
    /\ UNCHANGED <<inputs, outDirExists, args, locals, files>>

\* convert_from_path returns no page: that is printed and process_pdf returns.
ConvertEmpty ==
    /\ pc = "convert"
    /\ images' = <<>>
    /\ stdout' = Append(stdout, [kind |-> "no_pages", file |-> input_pdf])
    /\ hist' = [hist EXCEPT ![idx].status = "skipped"]
    /\ Return
    /\ UNCHANGED <<inputs, outDirExists, args, max_width, total_height,
                   stitched_image, current_y, k, boxes, files>>

\* convert_from_path returns the pages of the document.
ConvertPages ==
    /\ pc = "convert"
    /\ \E pages \in PageLists \ {<<>>} : images' = pages
    /\ hist' = [hist EXCEPT ![idx].status = "decoded"]
    /\ pc' = "measure"
    /\ UNCHANGED <<inputs, outDirExists, idx, args, max_width, total_height,
                   stitched_image, current_y, k, boxes, files, stdout>>

\* The canvas is measured and allocated, and the paste loop is set up.
Allocate ==
    /\ pc = "measure"
    /\ max_width' = MaxWidth(images)
    /\ total_height' = TotalHeight(images)
    /\ stitched_image' = NewImage(max_width', total_height')
    /\ current_y' = FirstY(current_y)
    /\ k' = 0
    /\ boxes' = <<>>
    /\ hist' = [hist EXCEPT ![idx].allocs = @ + 1]
    /\ pc' = "paste"
    /\ UNCHANGED <<inputs, outDirExists, idx, args, images, files, stdout>>

\* One iteration of the paste loop; after the last one the loop is left.
PastePage ==
    /\ pc = "paste"
    /\ k < Len(images)
    /\ LET img == images[k + 1]
           box == <<0, current_y>>
       IN  /\ stitched_image' = Paste(stitched_image, img, box)
           /\ boxes' = Append(boxes, box)
           /\ current_y' = NextY(current_y, img)
    /\ k' = k + 1
    /\ IF LoopDone(k', images)
       THEN /\ pc' = "save"
            /\ hist' = [hist EXCEPT ![idx].status = "composed"]
       ELSE UNCHANGED <<pc, hist>>
    /\ UNCHANGED <<inputs, outDirExists, idx, args, images, max_width,
                   total_height, files, stdout>>

\* stitched_image.save succeeds: the file is written, the success line is
\* printed and process_pdf returns.
SaveWrites ==
    /\ pc = "save"
    /\ outputs' = WriteFile(outputs, output_pdf,
                            [image |-> stitched_image, resolution |-> dpi])
    /\ sources' = WriteFile(sources, output_pdf, images)
    /\ stdout' = Append(stdout, [kind |-> "processed", file |-> input_pdf])
    /\ hist' = [hist EXCEPT ![idx].saves = @ + 1, ![idx].writes = @ + 1,
                            ![idx].status = "written"]
    /\ Return
    /\ UNCHANGED <<inputs, outDirExists, args, locals>>

\* stitched_image.save raises: nothing catches the exception, which leaves
\* process_pdf and process_folder and ends the program.
SaveRaises ==
    /\ pc = "save"
    /\ hist' = [hist EXCEPT ![idx].saves = @ + 1]
    /\ pc' = "crashed"
    /\ UNCHANGED <<inputs, outDirExists, idx, args, locals, files, stdout>>

Next ==
    \/ MakeDirs
    \/ SkipEntry
    \/ CallProcessPdf
    \/ EndOfListing
    \/ ConvertRaises
    \/ ConvertEmpty
    \/ ConvertPages
    \/ Allocate
    \/ PastePage
    \/ SaveWrites
    \/ SaveRaises

Spec == Init /\ [][Next]_vars

TypeOK ==
    /\ pc \in {"start", "loop", "convert", "measure", "paste", "save", "done", "crashed"}
    /\ idx \in 1..(Len(listing) + 1)
    /\ images \in PageLists
    /\ k \in 0..MaxPages
    /\ pc \in {"paste", "save"} => k <= Len(images)
    /\ DOMAIN outputs = DOMAIN sources

\* ------------------------------------------------------------ properties
\* The sum of the heights of the first n pages.
RECURSIVE HeightOfFirst(_, _)
HeightOfFirst(imgs, n) ==
    IF n = 0 THEN 0 ELSE HeightOfFirst(imgs, n - 1) + imgs[n].height

\* The canvas c has the width of the widest page and the summed height.
Sized(c, imgs) ==
    /\ \E i \in 1..Len(imgs) : c.width = imgs[i].width
    /\ \A i \in 1..Len(imgs) : imgs[i].width <= c.width
    /\ c.height = HeightOfFirst(imgs, Len(imgs))
    /\ DOMAIN c.pix = {<<x, y>> : x \in 0..(c.width - 1), y \in 0..(c.height - 1)}

\* The canvas of the running call is allocated.
HasCanvas == pc \in {"paste", "save", "crashed"}

\* The paste loop of the running call has ended.
Composed == pc \in {"save", "crashed"}

\* The path of the file process_folder writes for the i-th entry.
OutPath(i) == output_folder \o <<"/">> \o listing[i]

\* The name ends with ".pdf", whatever the case of its letters.
HasPdfExtension(name) ==
    /\ Len(name) >= 4
    /\ name[Len(name) - 3] = "."
    /\ name[Len(name) - 2] \in {"p", "P"}
    /\ name[Len(name) - 1] \in {"d", "D"}
    /\ name[Len(name)] \in {"f", "F"}

\* The loop of process_folder has reached the i-th entry.
Visited(i) == i < idx \/ (i = idx /\ pc \notin {"start", "loop", "done"})

\* The call of process_pdf for the i-th entry is over.
Finished(i) == hist[i].calls > 0 /\ (i < idx \/ pc = "crashed")

\* The status lines printed for the i-th entry.
LinesFor(i) ==
    {n \in 1..Len(stdout) : stdout[n].file = input_folder \o <<"/">> \o listing[i]}

\* C1: the canvas process_pdf allocates, and the one it hands to the encoder,
\* is as wide as the widest page and as high as the sum of the page heights.
C1_CanvasDimensions ==
    /\ HasCanvas =>
          /\ Sized(stitched_image, images)
          /\ max_width = stitched_image.width
          /\ total_height = stitched_image.height
    /\ \A p \in DOMAIN outputs : Sized(outputs[p].image, sources[p])

C1_Witness ==
    /\ pc = "save"
    /\ Len(images) = 3
    /\ images[1].width < images[2].width
    /\ images[3].height > images[1].height
    /\ stitched_image.width = 2
    /\ stitched_image.height = 4

\* The rows of the canvas the j-th paste of the running call covered.
Band(j) == boxes[j][2]..(boxes[j][2] + images[j].height - 1)

\* C2: page i is pasted at x = 0 and y = the sum of the heights of the pages
\* before it; the bands of the pages are pairwise disjoint, contiguous and
\* cover rows [0, total height); when the loop ends the offset is the canvas
\* height.
C2_PasteOffsets ==
    HasCanvas =>
        /\ Len(boxes) = k
        /\ \A j \in 1..k : boxes[j] = <<0, HeightOfFirst(images, j - 1)>>
        /\ \A i, j \in 1..k : i < j => Band(i) \cap Band(j) = {}
        /\ \A j \in 1..(k - 1) : boxes[j + 1][2] = boxes[j][2] + images[j].height
        /\ UNION {Band(j) : j \in 1..k} = 0..(current_y - 1)
        /\ Composed =>
              /\ k = Len(images)
              /\ current_y = stitched_image.height
              /\ UNION {Band(j) : j \in 1..k} = 0..(stitched_image.height - 1)

C2_Witness ==
    /\ pc = "save"
    /\ Len(images) = 3
    /\ boxes = << <<0, 0>>, <<0, 2>>, <<0, 3>> >>
    /\ current_y = 5

\* C3: a call of process_pdf that succeeds has written exactly one file, and
\* a call that fails (rasterizer failure, no page, encoder failure) none.
C3_OneFileOnSuccessOnly ==
    \A i \in 1..Len(listing) :
        IF hist[i].status = "written"
        THEN hist[i].writes = 1 /\ OutPath(i) \in DOMAIN outputs
        ELSE hist[i].writes = 0 /\ OutPath(i) \notin DOMAIN outputs

C3_Witness ==
    /\ pc = "crashed"
    /\ idx = 2
    /\ hist[1].status = "written" /\ hist[1].writes = 1
    /\ hist[2].saves = 1 /\ hist[2].writes = 0
    /\ DOMAIN outputs = {OutPath(1)}

\* C4: every selected entry is passed to process_pdf exactly once, whatever
\* happened to the entries before it (rasterizer failure, no page, encoder
\* failure).
C4_EverySelectedEntryProcessed ==
    pc \in {"done", "crashed"} =>
        \A i \in 1..Len(listing) : HasPdfExtension(listing[i]) => hist[i].calls = 1

\* C5: when the rasterizer raises or returns no page, process_pdf returns
\* normally, allocates no canvas, does not invoke the encoder and writes no
\* file; the other documents of the batch still produce their output.
C5_DecodeFailureIsolated ==
    /\ \A i \in 1..Len(listing) :
          hist[i].status = "skipped" =>
              /\ idx > i
              /\ hist[i].allocs = 0
              /\ hist[i].saves = 0
              /\ hist[i].writes = 0
              /\ OutPath(i) \notin DOMAIN outputs
    /\ pc = "done" =>
          \A i \in 1..Len(listing) :
              HasPdfExtension(listing[i]) =>
                  /\ hist[i].calls = 1
                  /\ hist[i].status \in {"written", "skipped"}
                  /\ hist[i].status = "written" => OutPath(i) \in DOMAIN outputs

C5_Witness ==
    /\ pc = "done"
    /\ Len(listing) = 2
    /\ hist[1].status = "skipped"
    /\ hist[2].status = "written"
    /\ stdout[1].kind = "error"
    /\ DOMAIN outputs = {OutPath(2)}

\* C6: process_pdf prints exactly one status line for each document it is
\* called on, whatever the outcome.
C6_OneStatusLinePerCall ==
    \A i \in 1..Len(listing) : Finished(i) => Cardinality(LinesFor(i)) = 1

\* C7: process_pdf is called on an entry if and only if its name ends with
\* ".pdf" case-insensitively, with the output path output_folder/name, and the
\* output files are among those of the selected names.
C7_ExtensionFilter ==
    /\ \A i \in 1..Len(listing) :
          /\ Visited(i) => (hist[i].calls = 1 <=> HasPdfExtension(listing[i]))
          /\ ~Visited(i) \/ ~HasPdfExtension(listing[i]) =>
                hist[i].calls = 0 /\ hist[i].status = "pending" /\ LinesFor(i) = {}
    /\ pc \in {"convert", "measure", "paste", "save", "crashed"} =>
          /\ input_pdf = input_folder \o <<"/">> \o listing[idx]
          /\ output_pdf = OutPath(idx)
    /\ DOMAIN outputs \subseteq
          {OutPath(i) : i \in {j \in 1..Len(listing) : HasPdfExtension(listing[j])}}

C7_Witness ==
    /\ pc = "done"
    /\ listing = << <<"p", "d", "f", ".", "t", "x", "t">>, <<"B", ".", "P", "d", "F">> >>
    /\ hist[1].calls = 0
    /\ hist[2].calls = 1
    /\ DOMAIN outputs = {<<"o", "u", "t", "/", "B", ".", "P", "d", "F">>}

\* C8: process_pdf keeps nothing from one call to the next: two documents
\* with the same pages get the same canvas, whatever was processed before.
C8_SamePagesSameCanvas ==
    /\ \A p, q \in DOMAIN outputs :
          sources[p] = sources[q] => outputs[p] = outputs[q]
    /\ Composed =>
          \A p \in DOMAIN outputs :
              sources[p] = images => outputs[p].image = stitched_image

C8_Witness ==
    /\ pc = "done"
    /\ Cardinality(DOMAIN outputs) = 2
    /\ \A p, q \in DOMAIN outputs : sources[p] = sources[q]
    /\ \A p \in DOMAIN outputs :
          Len(sources[p]) = 2 /\ \E x \in DOMAIN outputs[p].image.pix :
                                     outputs[p].image.pix[x] # White

\* The steps a document's status may take.
Lifecycle ==
    { <<"pending", "decoded">>, <<"decoded", "composed">>,
      <<"composed", "written">>, <<"pending", "skipped">> }

\* C9: a document goes pending -> decoded -> composed -> written or pending ->
\* skipped; the encoder is invoked only after every page is pasted; a document
\* is written or skipped before the next one leaves pending.
C9_Sequential ==
    \A i \in 1..Len(listing) :
        /\ hist[i].status \in {"decoded", "composed"} => i = idx
        /\ i > idx => hist[i].status = "pending" /\ hist[i].calls = 0
        /\ i < idx => hist[i].status \in {"pending", "written", "skipped"}
        /\ i < idx /\ hist[i].status = "pending" => hist[i].calls = 0
        /\ hist[i].status \in {"composed", "written"} /\ i = idx =>
              k = Len(images) /\ Len(boxes) = Len(images)
        /\ hist[i].saves > 0 => hist[i].status \in {"composed", "written"}

C9_Step ==
    \A i \in 1..Len(listing) :
        /\ hist'[i].status # hist[i].status =>
              <<hist[i].status, hist'[i].status>> \in Lifecycle
        /\ hist'[i].saves # hist[i].saves =>
              /\ hist[i].status = "composed"
              /\ k = Len(images)

C9_DocumentLifecycle == [](C9_Sequential) /\ [][C9_Step]_vars

C9_Witness ==
    /\ pc = "save"
    /\ idx = 2
    /\ hist[1].status = "written"
    /\ hist[2].status = "composed"
    /\ Len(images) = 3

\* The page whose band holds row y, and the row its band starts at.
PageAt(imgs, y) ==
    CHOOSE i \in 1..Len(imgs) :
        /\ HeightOfFirst(imgs, i - 1) <= y
        /\ y < HeightOfFirst(imgs, i)

\* Every pixel of c is the pixel of the page of its band, or white to the
\* right of that page.
Stacked(c, imgs) ==
    \A p \in DOMAIN c.pix :
        /\ \E i \in 1..Len(imgs) :
              HeightOfFirst(imgs, i - 1) <= p[2] /\ p[2] < HeightOfFirst(imgs, i)
        /\ LET i == PageAt(imgs, p[2])
               y == p[2] - HeightOfFirst(imgs, i - 1)
           IN  IF p[1] < imgs[i].width
               THEN c.pix[p] = imgs[i].pix[<<p[1], y>>]
               ELSE c.pix[p] = White

\* C10: after the paste loop every canvas pixel in the band of page i and
\* left of its width is that page's pixel, and every other pixel is white.
C10_CanvasPixels == Composed => Stacked(stitched_image, images)

C10_Witness ==
    /\ pc = "save"
    /\ Len(images) = 3
    /\ images[1].width = 2 /\ images[2].width = 1 /\ images[3].width = 1
    /\ images[2].height = 1 /\ images[3].height = 2
    /\ stitched_image.pix[<<1, 1>>] = White
    /\ stitched_image.pix[<<0, 1>>] = images[2].pix[<<0, 0>>]
    /\ stitched_image.pix[<<0, 2>>] = images[3].pix[<<0, 0>>]
    /\ stitched_image.pix[<<0, 2>>] # White

=============================================================================
